---- MODULE Spec2Model ----
(***************************************************************************)
(* Bugziller: the promise based dependency collector of loop-velocity.    *)
(* getAll(bugArray) fetches a batch of bugs, purges the response against  *)
(* the hashtable checkedBugs, and recurses into the depends_on list of    *)
(* every record it kept, one record after the other.                      *)
(*                                                                         *)
(* A promise is modelled by the call record that will settle it.  A       *)
(* getAll call that issues a request is one element of `calls`; element   *)
(* k of `calls` is therefore also the k-th fetch request of the           *)
(* traversal.  Identifiers are positive integers; the remote source is    *)
(* `graph` (depends_on of every bug) and `known` (the bugs it returns).   *)
(***************************************************************************)
EXTENDS Integers, Sequences, FiniteSets

\* ---------------------------------------------------------------- bounds
NumBugs  == 5    \* identifiers of the acyclic graphs: 1..NumBugs
NumCyc   == 2    \* identifiers of the unrestricted (possibly cyclic) graphs
MaxEdges == 3    \* depends_on entries of a graph, all bugs together
MaxRoots == 2    \* length of the root sequence handed to getAll
MaxRuns  == 2    \* top-level getAll calls made one after the other
MaxFetch == 6    \* fetch requests of one traversal the model follows

Bugs   == 1..NumBugs
CycIds == 1..NumCyc

NoErr == "none"
Errors == {"NetworkError", "MalformedResponseError"}

NumReleases == 2 \* entries of RELEASES
NumSprints == 3  \* sprints between START and last sunday
MaxSolved == 1   \* bugs a sprint query can return

\* filterBugs takes an array of this length: assigned, solved, fullyDone
NumLists == 3

\* ---------------------------------------------------------------- helpers
Min(S) == CHOOSE m \in S : \A x \in S : m <= x

RECURSIVE SortedSeq(_)
SortedSeq(S) == IF S = {} THEN <<>>
                ELSE <<Min(S)>> \o SortedSeq(S \ {Min(S)})

Range(s) == {s[i] : i \in DOMAIN s}

\* every order in which the elements of S can be listed
Perms(S) == {p \in [1..Cardinality(S) -> S] : \A i, j \in DOMAIN p : p[i] = p[j] => i = j}

\* Array.prototype.splice(position, 1), positions counted from 1
RemoveAt(s, position) ==
    [k \in 1..(Len(s) - 1) |-> IF k < position THEN s[k] ELSE s[k + 1]]

\* ---------------------------------------------------------------- inputs
AllPairs     == CycIds \X CycIds
ForwardPairs == {e \in Bugs \X Bugs : e[1] < e[2]}

EdgeSets == {E \in SUBSET AllPairs : Cardinality(E) <= MaxEdges}
            \cup {E \in SUBSET ForwardPairs : Cardinality(E) <= MaxEdges}

\* the remote source's depends_on field of every bug
GraphOf(E) == [b \in Bugs |-> SortedSeq({j \in Bugs : <<b, j>> \in E})]

RootChoices == {[i \in 1..k |-> i] : k \in 0..MaxRoots} \cup {<<1, 1>>}

VARIABLES
    graph,        \* remote source: bug id -> depends_on
    known,        \* remote source: the bug ids it recognizes
    meta,         \* remote source: the bug ids whose summary isMeta accepts
    rootArg,      \* argument of the top-level getAll calls, as the caller wrote it
    checkedBugs,  \* the hashtable, as the set of its keys
    calls,        \* getAll calls that issued a fetch, oldest first
    outcome,      \* promise returned by the current top-level getAll
    other,        \* promise returned by a getAll called while that one runs
    prevOutcome,  \* promise returned by the top-level getAll before it
    prevBatches,  \* the batches that getAll fetched, oldest first
    run,          \* top-level getAll calls made so far
    fetchErr,     \* what a fetch of the current traversal failed with
    release,         \* release pipeline: index in RELEASES the chain has come to
    stage,           \* release pipeline: the handler of that release that is next
    queried,         \* release pipeline: releases getRelease was called for
    printed,         \* release pipeline: releases printData has put on the page
    fullBugList,     \* release pipeline: what getRelease resolved with
    classifiedLists, \* release pipeline: what filterBugs resolved with
    sprintQuery,     \* getVelocity: the querySolved promise of each sprint
    resultArray,     \* getVelocity: resultArray
    chartBars,       \* getVelocity: the bars barChart.addData has added
    chainAt,         \* getVelocity: sprint the reduce chain waits for (i)
    velocity         \* promise returned by getVelocity

pipeVars == <<release, stage, queried, printed, fullBugList, classifiedLists>>
velVars == <<sprintQuery, resultArray, chartBars, chainAt, velocity>>
pageVars == <<pipeVars, velVars>>

vars == <<graph, known, meta, rootArg, checkedBugs, calls, outcome, other, prevOutcome, prevBatches, run, fetchErr, pageVars>>

\* what a caller can write as the argument of getAll: one identifier, or an
\* array of identifiers
IdArg(x) == [kind |-> "id", id |-> x, list |-> <<>>]
ArrayArg(a) == [kind |-> "array", id |-> 0, list |-> a]

\* bugArray = [].concat(bugArray): an array is copied, a value that is not
\* one becomes the only element.  Without that line a number has no length
\* and getAll takes it for an empty array.
ToArrayNoConcat(arg) == IF arg.kind = "array" THEN arg.list ELSE <<>>
ToArray(arg) == IF arg.kind = "array" THEN arg.list ELSE <<arg.id>>

\* bugArray of the top-level getAll, past that line
roots == ToArray(rootArg)

\* the batches of the requests of the current top-level getAll, oldest first
Batches == [i \in DOMAIN calls |-> calls[i].batch]

Idle         == [st |-> "idle", val |-> <<>>, err |-> NoErr]
Pending      == [st |-> "pending", val |-> <<>>, err |-> NoErr]
Fulfilled(v) == [st |-> "fulfilled", val |-> v, err |-> NoErr]
Rejected(e)  == [st |-> "rejected", val |-> <<>>, err |-> e]

\* ---------------------------------------------------------------- getBug
\* dataList.forEach((bugData, position) => ...) with the splice inside it:
\* forEach goes on to position + 1 of the list the splice has just shortened
ForEachSpliceKeepAll(dataList, position, checked) ==
    [list |-> dataList, checked |-> checked \cup Range(dataList)]
RECURSIVE ForEachSplice(_, _, _)
ForEachSplice(dataList, position, checked) ==
    IF position > Len(dataList)
    THEN [list |-> dataList, checked |-> checked]
    ELSE IF dataList[position] \in checked
         THEN ForEachSplice(RemoveAt(dataList, position), position + 1, checked)
         ELSE ForEachSplice(dataList, position + 1, checked \cup {dataList[position]})

\* the records a request for `batch` can be answered with, in any order
ResponsesAll(batch) == Perms(Range(batch))
Responses(batch) == Perms(Range(batch) \cap known)

\* ---------------------------------------------------------------- getAll
\* if (!bugArray.length) return Promise.resolve([])
IsEmptyBatchNever(bugArray) == FALSE
IsEmptyBatch(bugArray) == Len(bugArray) = 0

\* a getAll call past that test: its request is out.  parent and pos name
\* the chain that waits for it, chk is the hashtable as the request left
NewCall(parent, pos, bugArray) ==
    [parent |-> parent, pos |-> pos, batch |-> bugArray, st |-> "fetching",
     chk |-> checkedBugs, info |-> <<>>, idx |-> 1, partial |-> <<>>,
     pending |-> 0, err |-> NoErr]

\* infoArray.forEach(bug => list.push(bug.id)): every record is pushed, the
\* isMeta test of the older getAll is gone
PushesNonMeta(b) == b \notin meta
PushesBug(b) == TRUE

ListOf(infoArray) == SelectSeq(infoArray, PushesBug)

\* list.concat(depends): the value a getAll promise is fulfilled with
GetAllValueListOnly(c) == ListOf(c.info)
GetAllValueDependsFirst(c) == c.partial \o ListOf(c.info)
GetAllValue(c) == ListOf(c.info) \o c.partial

\* p.then(partial => getAll(c.depends_on)...): the chain of getDependencies
\* reaches the next record when the promise of the one before is fulfilled
ChainReadyEager(c) == TRUE
ChainReady(c) == c.pending = 0

\* getAll(c.depends_on): the batch of the recursive call for record idx
DependsOnBatchMerged(c) ==
    IF c.idx = 1
    THEN SortedSeq(UNION {Range(graph[c.info[k]]) : k \in DOMAIN c.info})
    ELSE <<>>
DependsOnBatch(c) == graph[c.info[c.idx]]

\* no then() of the chain has a rejection handler: a rejected child rejects
\* the promise of the call that waits for it
OnChildRejectedCatch(c, e) == [c EXCEPT !.pending = c.pending - 1]
OnChildRejected(c, e) == [c EXCEPT !.st = "rejected", !.err = e]

\* ---------------------------------------------------------------- page
\* json.bugs of one query of getAllFromDates: the list of the bugs, or
\* undefined when the body the source sent has no such field
BugsField(l) == [defined |-> TRUE, list |-> l]
Undefined == [defined |-> FALSE, list |-> <<>>]

BugLists == UNION {Perms(S) : S \in SUBSET CycIds}
JsonBugs == {Undefined} \cup {BugsField(l) : l \in BugLists}

\* what Promise.all of the three queries can resolve with
ReleaseData == [1..NumLists -> JsonBugs]

\* Bugziller.isMeta(bug): the summary of the bug matches [meta] or (meta)
IsMeta(b) == b \in meta

\* bugList.forEach((bug, pos) => ...) of filterBugs, with the splice inside it
ForEachMetaNoSplice(bugList, pos, metas) ==
    [metas |-> SelectSeq(bugList, IsMeta), done |-> bugList]
RECURSIVE ForEachMeta(_, _, _)
ForEachMeta(bugList, pos, metas) ==
    IF pos > Len(bugList)
    THEN [metas |-> metas, done |-> bugList]
    ELSE IF IsMeta(bugList[pos])
         THEN ForEachMeta(RemoveAt(bugList, pos), pos + 1, Append(metas, bugList[pos]))
         ELSE ForEachMeta(bugList, pos + 1, metas)

\* bugList.forEach of a json.bugs that is undefined throws
FilterThrows(filteredRelease) ==
    \E k \in DOMAIN filteredRelease : ~filteredRelease[k].defined

\* filteredRelease.map(bugList => ...) of filterBugs
FilterBugs(filteredRelease) ==
    [k \in DOMAIN filteredRelease |-> ForEachMeta(filteredRelease[k].list, 1, <<>>)]

\* a handler of the chain threw, or the promise it waits for is rejected: the
\* handlers chained after it in the reduce are skipped, down to the catch
AfterThrowCaughtPerRelease(k) ==
    [stage |-> IF k < NumReleases THEN "next" ELSE "finished", release |-> k + 1]
AfterThrow(k) == [stage |-> "rejected", release |-> k]

\* the script of the release page has not run
PipeOff ==
    /\ release = 1
    /\ stage = "off"
    /\ queried = <<>>
    /\ printed = <<>>
    /\ fullBugList = <<>>
    /\ classifiedLists = <<>>

\* one querySolved promise
NotAsked == [st |-> "idle", n |-> 0]
Asked == [st |-> "pending", n |-> 0]
Solved(n) == [st |-> "done", n |-> n]
QueryFailed == [st |-> "failed", n |-> 0]

\* getVelocity has not been called
VelOff ==
    /\ sprintQuery = [k \in 1..NumSprints |-> NotAsked]
    /\ resultArray = <<>>
    /\ chartBars = <<>>
    /\ chainAt = 1
    /\ velocity = Idle

\* the Bugziller module as the traversal specifications leave it
TravOff ==
    /\ graph = GraphOf({})
    /\ known = Bugs
    /\ rootArg = ArrayArg(<<>>)
    /\ checkedBugs = {}
    /\ calls = <<>>
    /\ outcome = Idle
    /\ other = Idle
    /\ prevOutcome = Idle
    /\ prevBatches = <<>>
    /\ run = 0
    /\ fetchErr = NoErr

travVars == <<graph, known, meta, rootArg, checkedBugs, calls, outcome, other, prevOutcome, prevBatches, run, fetchErr>>

\* ---------------------------------------------------------------- actions
Init ==
    /\ graph \in {GraphOf(E) : E \in EdgeSets}
    /\ known = Bugs
    /\ meta = {}
    /\ rootArg \in {ArrayArg(r) : r \in RootChoices}
    /\ checkedBugs = {}
    /\ calls = <<>>
    /\ outcome = Idle
    /\ other = Idle
    /\ prevOutcome = Idle
    /\ prevBatches = <<>>
    /\ run = 0
    /\ fetchErr = NoErr
    /\ PipeOff
    /\ VelOff

\* getAll(roots) called from outside the module (UI, getReleaseData)
GetAllTop ==
    /\ run' = run + 1
    /\ prevOutcome' = outcome
    /\ prevBatches' = Batches
    /\ fetchErr' = NoErr
    /\ IF IsEmptyBatch(roots)
       THEN /\ calls' = <<>>
            /\ outcome' = Fulfilled(<<>>)
       ELSE /\ calls' = <<NewCall(0, 0, roots)>>
            /\ outcome' = Pending
    /\ UNCHANGED <<graph, known, meta, rootArg, checkedBugs, other, pageVars>>

\* the first getAll of the page: the hashtable is as the module created it
Call ==
    /\ outcome.st = "idle"
    /\ GetAllTop

\* a later getAll, made once the promise of the one before is settled: the
\* hashtable is the module's, and no call resets it
CallAgain ==
    /\ outcome.st \in {"fulfilled", "rejected"}
    /\ run < MaxRuns
    /\ GetAllTop

\* the page is loaded again, which runs the module function again and so
\* creates a new hashtable, and getAll is called with the same roots
CallAfterReload ==
    /\ outcome.st \in {"fulfilled", "rejected"}
    /\ run < MaxRuns
    /\ checkedBugs' = {}
    /\ run' = run + 1
    /\ prevOutcome' = outcome
    /\ prevBatches' = Batches
    /\ fetchErr' = NoErr
    /\ IF IsEmptyBatch(roots)
       THEN /\ calls' = <<>>
            /\ outcome' = Fulfilled(<<>>)
       ELSE /\ calls' = <<[NewCall(0, 0, roots) EXCEPT !.chk = {}]>>
            /\ outcome' = Pending
    /\ UNCHANGED <<graph, known, meta, rootArg, other, pageVars>>

\* getAll(x) written as getAll([x]) and the other way round
OtherForm(arg) ==
    IF arg.kind = "array" THEN IdArg(arg.list[1]) ELSE ArrayArg(<<arg.id>>)

\* the page is loaded again and getAll is called with the same identifier,
\* written the other way
CallOtherForm ==
    /\ outcome.st \in {"fulfilled", "rejected"}
    /\ run < MaxRuns
    /\ rootArg' = OtherForm(rootArg)
    /\ checkedBugs' = {}
    /\ run' = run + 1
    /\ prevOutcome' = outcome
    /\ prevBatches' = Batches
    /\ fetchErr' = NoErr
    /\ IF IsEmptyBatch(roots')
       THEN /\ calls' = <<>>
            /\ outcome' = Fulfilled(<<>>)
       ELSE /\ calls' = <<[NewCall(0, 0, roots') EXCEPT !.chk = {}]>>
            /\ outcome' = Pending
    /\ UNCHANGED <<graph, known, meta, other, pageVars>>

\* getAll(r) called through the public interface while the promise of the
\* current one is pending: same module, same hashtable
CallConcurrent(r) ==
    /\ outcome.st = "pending"
    /\ other.st = "idle"
    /\ ~IsEmptyBatch(r)
    /\ Len(calls) < MaxFetch
    /\ calls' = Append(calls, NewCall(-1, 0, r))
    /\ other' = Pending
    /\ UNCHANGED <<graph, known, meta, rootArg, checkedBugs, outcome, prevOutcome, prevBatches, run, fetchErr, pageVars>>

\* the response of request i arrives and getBug's callback purges it
Respond(i, data) ==
    /\ calls[i].st = "fetching"
    /\ LET purged == ForEachSplice(data, 1, checkedBugs) IN
       /\ checkedBugs' = purged.checked
       /\ calls' = [calls EXCEPT ![i].st = "expanding", ![i].info = purged.list]
    /\ UNCHANGED <<graph, known, meta, rootArg, outcome, other, prevOutcome, prevBatches, run, fetchErr, pageVars>>

\* fetch() rejects, or response.json() does
FetchFail(i, e) ==
    /\ calls[i].st = "fetching"
    /\ fetchErr = NoErr
    /\ PipeOff
    /\ VelOff
    /\ fetchErr' = e
    /\ calls' = [calls EXCEPT ![i].st = "rejected", ![i].err = e]
    /\ UNCHANGED <<graph, known, meta, rootArg, checkedBugs, outcome, other, prevOutcome, prevBatches, run, pageVars>>

\* getDependencies reaches record idx of infoArray: getAll(c.depends_on)
Expand(i) ==
    LET c == calls[i]
        deps == DependsOnBatch(c)
    IN  /\ c.st = "expanding"
        /\ c.idx <= Len(c.info)
        /\ ChainReady(c)
        /\ IF IsEmptyBatch(deps)
           THEN calls' = [calls EXCEPT ![i].idx = c.idx + 1]
           ELSE /\ Len(calls) < MaxFetch
                /\ calls' = Append([calls EXCEPT ![i].idx = c.idx + 1,
                                                 ![i].pending = c.pending + 1],
                                   NewCall(i, c.idx, deps))
        /\ UNCHANGED <<graph, known, meta, rootArg, checkedBugs, outcome, other, prevOutcome, prevBatches, run, fetchErr, pageVars>>

\* the promise a top-level call returned settles: parent 0 is the caller of
\* the current getAll, parent -1 the caller of the one made while it runs
Settle(c, p) ==
    IF c.parent = 0
    THEN outcome' = p /\ other' = other
    ELSE other' = p /\ outcome' = outcome

\* the chain of call i is through: its promise is fulfilled with
\* list.concat(depends), which the waiting chain concats to its partial
Resolve(i) ==
    LET c == calls[i]
        v == GetAllValue(c)
    IN  /\ c.st = "expanding"
        /\ c.idx > Len(c.info)
        /\ c.pending = 0
        /\ IF c.parent <= 0
           THEN /\ Settle(c, Fulfilled(v))
                /\ calls' = [calls EXCEPT ![i].st = "resolved"]
           ELSE /\ UNCHANGED <<outcome, other>>
                /\ calls' = [calls EXCEPT
                      ![i].st = "resolved",
                      ![c.parent].partial = calls[c.parent].partial \o v,
                      ![c.parent].pending = calls[c.parent].pending - 1]
        /\ UNCHANGED <<graph, known, meta, rootArg, checkedBugs, prevOutcome, prevBatches, run, fetchErr, pageVars>>

\* a rejected promise settles the promise chained on it
Propagate(i) ==
    LET c == calls[i] IN
        /\ c.st = "rejected"
        /\ IF c.parent <= 0
           THEN /\ Settle(c, Rejected(c.err))
                /\ calls' = [calls EXCEPT ![i].st = "failed"]
           ELSE /\ UNCHANGED <<outcome, other>>
                /\ calls' = [calls EXCEPT
                      ![i].st = "failed",
                      ![c.parent] = OnChildRejected(calls[c.parent], c.err)]
        /\ UNCHANGED <<graph, known, meta, rootArg, checkedBugs, prevOutcome, prevBatches, run, fetchErr, pageVars>>

Next ==
    \/ Call
    \/ \E i \in DOMAIN calls : \E data \in Responses(calls[i].batch) : Respond(i, data)
    \/ \E i \in DOMAIN calls : \E e \in Errors : FetchFail(i, e)
    \/ \E i \in DOMAIN calls : Expand(i)
    \/ \E i \in DOMAIN calls : Resolve(i)
    \/ \E i \in DOMAIN calls : Propagate(i)

\* one traversal, started with the hashtable empty
Spec == Init /\ [][Next]_vars

\* one traversal, every promise that can settle does
FairSpec == Init /\ [][Next]_vars /\ WF_vars(Next)

NextRepeat ==
    \/ Next
    \/ CallAgain

\* traversals one after the other on the same page
RepeatSpec == Init /\ [][NextRepeat]_vars

\* chains and rings: every bug depends on one bug at most
RingGraphs ==
    {[b \in Bugs |-> IF b \in CycIds THEN f[b] ELSE <<>>] :
        f \in [CycIds -> {<<>>} \cup {<<j>> : j \in CycIds}]}

\* one traversal of a chain or ring, every promise that can settle does
RingInit ==
    /\ graph \in RingGraphs
    /\ known = Bugs
    /\ meta = {}
    /\ rootArg \in {ArrayArg(r) : r \in RootChoices}
    /\ checkedBugs = {}
    /\ calls = <<>>
    /\ outcome = Idle
    /\ other = Idle
    /\ prevOutcome = Idle
    /\ prevBatches = <<>>
    /\ run = 0
    /\ fetchErr = NoErr
    /\ PipeOff
    /\ VelOff

RingFairSpec == RingInit /\ [][Next]_vars /\ WF_vars(Next)

\* one traversal from bug 1 of an acyclic graph with a [meta] bug in it
MetaInit ==
    /\ graph \in {GraphOf(E) : E \in {F \in SUBSET ForwardPairs : Cardinality(F) <= MaxEdges}}
    /\ known = Bugs
    /\ meta \in {{m} : m \in CycIds}
    /\ rootArg = ArrayArg(<<1>>)
    /\ checkedBugs = {}
    /\ calls = <<>>
    /\ outcome = Idle
    /\ other = Idle
    /\ prevOutcome = Idle
    /\ prevBatches = <<>>
    /\ run = 0
    /\ fetchErr = NoErr
    /\ PipeOff
    /\ VelOff

MetaSpec == MetaInit /\ [][Next]_vars

\* the one identifier the source has no record of
UnknownId == NumBugs

\* one traversal of an acyclic graph where dependency lists may name
\* UnknownId
UnknownInit ==
    /\ graph \in {GraphOf(E) : E \in {F \in SUBSET ForwardPairs : Cardinality(F) <= MaxEdges}}
    /\ known = Bugs \ {UnknownId}
    /\ meta = {}
    /\ rootArg \in {ArrayArg(r) : r \in RootChoices}
    /\ checkedBugs = {}
    /\ calls = <<>>
    /\ outcome = Idle
    /\ other = Idle
    /\ prevOutcome = Idle
    /\ prevBatches = <<>>
    /\ run = 0
    /\ fetchErr = NoErr
    /\ PipeOff
    /\ VelOff

UnknownSpec == UnknownInit /\ [][Next]_vars

\* one identifier as the argument of getAll, alone or in an array, over a
\* chain or ring
FormInit ==
    /\ graph \in RingGraphs
    /\ known = Bugs
    /\ meta = {}
    /\ rootArg \in {IdArg(x) : x \in CycIds} \cup {ArrayArg(<<x>>) : x \in CycIds}
    /\ checkedBugs = {}
    /\ calls = <<>>
    /\ outcome = Idle
    /\ other = Idle
    /\ prevOutcome = Idle
    /\ prevBatches = <<>>
    /\ run = 0
    /\ fetchErr = NoErr
    /\ PipeOff
    /\ VelOff

NextForm ==
    \/ Next
    \/ CallOtherForm

FormSpec == FormInit /\ [][NextForm]_vars

NextOrder ==
    \/ Next
    \/ CallAfterReload

\* the same traversal on two loads of the page: same graph, same roots,
\* the records of each response in whatever order the source sends them
OrderSpec == Init /\ [][NextOrder]_vars

NextConc ==
    \/ Next
    \/ \E r \in {<<b>> : b \in CycIds} : CallConcurrent(r)

\* two getAll running at once over a chain or ring
ConcSpec == RingInit /\ [][NextConc]_vars

\* ------------------------------------------------------ release pipeline
\* sequence.then(() => Bugziller.getRelease(release)): the queries of the
\* release are sent
GetRelease ==
    /\ stage = "next"
    /\ queried' = Append(queried, release)
    /\ stage' = "query"
    /\ UNCHANGED <<release, printed, fullBugList, classifiedLists, travVars, velVars>>

\* the promise of getRelease is fulfilled
ReleaseFetched(data) ==
    /\ stage = "query"
    /\ fullBugList' = data
    /\ stage' = "filter"
    /\ UNCHANGED <<release, queried, printed, classifiedLists, travVars, velVars>>

\* a fetch of getRelease fails
ReleaseFetchFail ==
    /\ stage = "query"
    /\ stage' = AfterThrow(release).stage
    /\ release' = AfterThrow(release).release
    /\ UNCHANGED <<queried, printed, fullBugList, classifiedLists, travVars, velVars>>

\* .then(fullBugList => filterBugs(fullBugList)); an array of another
\* length is answered with Promise.resolve(), here the empty classifiedLists
FilterStep ==
    /\ stage = "filter"
    /\ IF Len(fullBugList) # NumLists
       THEN /\ stage' = "print"
            /\ classifiedLists' = <<>>
            /\ UNCHANGED <<release, fullBugList>>
       ELSE IF FilterThrows(fullBugList)
       THEN /\ stage' = AfterThrow(release).stage
            /\ release' = AfterThrow(release).release
            /\ fullBugList' = <<>>
            /\ UNCHANGED classifiedLists
       ELSE /\ stage' = "print"
            /\ classifiedLists' = FilterBugs(fullBugList)
            /\ UNCHANGED <<release, fullBugList>>
    /\ UNCHANGED <<queried, printed, travVars, velVars>>

\* .then(classifiedLists => printData(release, classifiedLists)); without
\* data printData returns at once
PrintData ==
    /\ stage = "print"
    /\ printed' = IF Len(classifiedLists) = 0 THEN printed ELSE Append(printed, release)
    /\ release' = release + 1
    /\ stage' = IF release < NumReleases THEN "next" ELSE "finished"
    /\ fullBugList' = <<>>
    /\ classifiedLists' = <<>>
    /\ UNCHANGED <<queried, travVars, velVars>>

\* printData throws before UI.results.appendChild
PrintThrow ==
    /\ stage = "print"
    /\ stage' = AfterThrow(release).stage
    /\ release' = AfterThrow(release).release
    /\ fullBugList' = <<>>
    /\ classifiedLists' = <<>>
    /\ UNCHANGED <<queried, printed, travVars, velVars>>

\* .catch((error) => console.error(...))
CatchError ==
    /\ stage = "rejected"
    /\ stage' = "caught"
    /\ UNCHANGED <<release, queried, printed, fullBugList, classifiedLists, travVars, velVars>>

\* .then(() => UI.loading.classList.add('nope'))
HideLoading ==
    /\ stage \in {"finished", "caught"}
    /\ stage' = "hidden"
    /\ UNCHANGED <<release, queried, printed, fullBugList, classifiedLists, travVars, velVars>>

NextPipe ==
    \/ GetRelease
    \/ stage = "query" /\ \E data \in ReleaseData : ReleaseFetched(data)
    \/ ReleaseFetchFail
    \/ FilterStep
    \/ PrintData
    \/ PrintThrow
    \/ CatchError
    \/ HideLoading

\* the script of the release page runs: RELEASES.reduce builds the chain
PipeInit ==
    /\ TravOff
    /\ meta \in SUBSET CycIds
    /\ VelOff
    /\ release = 1
    /\ stage = "next"
    /\ queried = <<>>
    /\ printed = <<>>
    /\ fullBugList = <<>>
    /\ classifiedLists = <<>>

PipeSpec == PipeInit /\ [][NextPipe]_vars

\* ----------------------------------------------------------- getVelocity
\* getSprintVelocity: sprintArray.map sends every query, reduce builds the
\* chain
GetVelocity ==
    /\ velocity.st = "idle"
    /\ sprintQuery' = [k \in 1..NumSprints |-> Asked]
    /\ velocity' = Pending
    /\ UNCHANGED <<resultArray, chartBars, chainAt, travVars, pipeVars>>

\* the query of sprint k is answered with n bugs:
\* resultArray.push(solvedArray.length)
QuerySolved(k, n) ==
    /\ sprintQuery[k].st = "pending"
    /\ sprintQuery' = [sprintQuery EXCEPT ![k] = Solved(n)]
    /\ resultArray' = Append(resultArray, n)
    /\ UNCHANGED <<chartBars, chainAt, velocity, travVars, pipeVars>>

\* the fetch of the query of sprint k fails
QuerySolvedFail(k) ==
    /\ sprintQuery[k].st = "pending"
    /\ sprintQuery' = [sprintQuery EXCEPT ![k] = QueryFailed]
    /\ UNCHANGED <<resultArray, chartBars, chainAt, velocity, travVars, pipeVars>>

\* the chain comes to a sprint whose query is answered:
\* barChart.addData([result], sprintArray[i++].end)
AddData ==
    /\ velocity.st = "pending"
    /\ chainAt <= NumSprints
    /\ sprintQuery[chainAt].st = "done"
    /\ chartBars' = Append(chartBars, <<sprintQuery[chainAt].n, chainAt>>)
    /\ chainAt' = chainAt + 1
    /\ UNCHANGED <<sprintQuery, resultArray, velocity, travVars, pipeVars>>

\* the chain comes to a sprint whose query failed
ChainRejected ==
    /\ velocity.st = "pending"
    /\ chainAt <= NumSprints
    /\ sprintQuery[chainAt].st = "failed"
    /\ velocity' = Rejected("NetworkError")
    /\ UNCHANGED <<sprintQuery, resultArray, chartBars, chainAt, travVars, pipeVars>>

\* .then(() => resultArray)
VelocityResolved ==
    /\ velocity.st = "pending"
    /\ chainAt > NumSprints
    /\ velocity' = Fulfilled(resultArray)
    /\ UNCHANGED <<sprintQuery, resultArray, chartBars, chainAt, travVars, pipeVars>>

NextVel ==
    \/ GetVelocity
    \/ \E k \in 1..NumSprints : \E n \in 0..MaxSolved : QuerySolved(k, n)
    \/ \E k \in 1..NumSprints : QuerySolvedFail(k)
    \/ AddData
    \/ ChainRejected
    \/ VelocityResolved

\* the velocity page: Bugziller.getVelocity() is called once
VelInit ==
    /\ TravOff
    /\ meta = {}
    /\ PipeOff
    /\ VelOff

VelSpec == VelInit /\ [][NextVel]_vars

\* ---------------------------------------------------------------- claims
Done   == outcome.st = "fulfilled"
Failed == outcome.st = "rejected"
Result == outcome.val

NoDuplicates(s) == \A i, j \in DOMAIN s : s[i] = s[j] => i = j

FirstPos(s, x) == Min({i \in DOMAIN s : s[i] = x})

\* the bugs reachable from the set S through depends_on, S included
RECURSIVE ReachFrom(_)
ReachFrom(S) ==
    LET n == S \cup UNION {Range(graph[b]) : b \in S}
    IN  IF n = S THEN S ELSE ReachFrom(n)

Reachable == ReachFrom(Range(roots))

\* breadth-first layers: the layer of x, counted from the layer `frontier` as d
RECURSIVE LayerFrom(_, _, _, _)
LayerFrom(x, frontier, seen, d) ==
    IF x \in frontier \/ frontier = {} THEN d
    ELSE LayerFrom(x,
                   UNION {Range(graph[b]) : b \in frontier} \ (seen \cup frontier),
                   seen \cup frontier, d + 1)

Layer(x) == LayerFrom(x, Range(roots), {}, 0)

NumLayers == IF Reachable = {} THEN 0
             ELSE 1 + Layer(CHOOSE x \in Reachable : \A y \in Reachable : Layer(y) <= Layer(x))

InFlight == {i \in DOMAIN calls : calls[i].st = "fetching"}

\* the call made for record q of the list call i kept
ChildOf(i, q) == {j \in DOMAIN calls : calls[j].parent = i /\ calls[j].pos = q}

\* the records call i kept, then, record by record, everything the call made
\* for that record collected
RECURSIVE PreOrder(_), ChildrenFrom(_, _)
PreOrder(i) == calls[i].info \o ChildrenFrom(i, 1)
ChildrenFrom(i, q) ==
    IF q > Len(calls[i].info) THEN <<>>
    ELSE (IF ChildOf(i, q) = {} THEN <<>>
          ELSE PreOrder(CHOOSE j \in ChildOf(i, q) : TRUE))
         \o ChildrenFrom(i, q + 1)

\* C1: within one traversal no identifier is part of the batch of two fetch
\* requests.
C1_NoIdFetchedTwice ==
    \A i, j \in DOMAIN calls :
        i < j => Range(calls[i].batch) \cap Range(calls[j].batch) = {}

\* C2: the list a completed traversal returns holds every identifier at most
\* once.
C2_ResultNoDuplicates == Done => NoDuplicates(Result)

\* call a is call i or encloses it
RECURSIVE Encloses(_, _)
Encloses(a, i) ==
    IF i = 0 THEN FALSE
    ELSE IF a = i THEN TRUE
    ELSE Encloses(a, calls[i].parent)

\* the chain of call i is about to call getAll with a non-empty batch
AboutToFetch(i) ==
    /\ calls[i].st = "expanding"
    /\ calls[i].idx <= Len(calls[i].info)
    /\ ChainReady(calls[i])
    /\ ~IsEmptyBatch(DependsOnBatch(calls[i]))

\* that getAll repeats a call enclosing it: same batch, same hashtable.  The
\* source answering as it did then, the same calls follow, without end
Recurs(i) ==
    \E a \in DOMAIN calls :
        /\ Encloses(a, i)
        /\ calls[a].batch = DependsOnBatch(calls[i])
        /\ calls[a].chk = checkedBugs

\* the model stops following a traversal at MaxFetch requests; here it stops
\* short of a call that is no such repetition
CutShort ==
    \E i \in DOMAIN calls :
        AboutToFetch(i) /\ Len(calls) >= MaxFetch /\ ~Recurs(i)

\* C3: a traversal whose fetches all succeed eventually resolves.
C3_Terminates == <>(Done \/ fetchErr # NoErr \/ CutShort)

\* C4: started with an empty hashtable, on a graph the remote source knows
\* entirely, the identifiers of the returned list are exactly the identifiers
\* reachable from the roots.
C4_ResultIsClosure ==
    (Done /\ run = 1 /\ Reachable \subseteq known) => Range(Result) = Reachable

C4_Witness ==
    /\ Done /\ run = 1 /\ Reachable \subseteq known
    /\ Cardinality(Reachable) >= 4
    /\ Len(calls) >= 3
    /\ Range(Result) = Reachable

\* C5: a second top-level getAll with the same roots, made after the first has
\* resolved, returns what the first returned.
C5_SecondCallSameResult ==
    (run >= 2 /\ Done /\ prevOutcome.st = "fulfilled") => Result = prevOutcome.val

\* C6: once a fetch has failed the top-level promise is never fulfilled, and
\* when the rejection has run through the chain it is rejected with the very
\* failure of that fetch; it is rejected for no other reason.
C6_FailFast ==
    /\ fetchErr # NoErr => ~Done
    /\ Failed => fetchErr # NoErr /\ outcome.err = fetchErr
    /\ (fetchErr # NoErr /\ \A i \in DOMAIN calls : calls[i].st # "rejected")
          => outcome = Rejected(fetchErr)

C6_Witness ==
    /\ Failed
    /\ outcome.err = fetchErr
    /\ Len(calls) >= 3
    /\ calls[1].info # <<>>
    /\ calls[2].info # <<>>

\* C7: getAll of an empty root sequence resolves with the empty list and
\* issues no fetch request.
C7_EmptyRootsNoFetch ==
    (roots = <<>> /\ run >= 1) => outcome = Fulfilled(<<>>) /\ calls = <<>>

C7_Witness == roots = <<>> /\ run = 1 /\ Done /\ Result = <<>> /\ calls = <<>>

\* C8: at most one fetch request is in flight; when a request is issued every
\* request issued before it has been answered and purged.
C8_OneFetchInFlight ==
    /\ Cardinality(InFlight) <= 1
    /\ \A i, j \in DOMAIN calls : i < j => calls[i].st # "fetching"

C8_Witness ==
    /\ Len(calls) >= 3
    /\ InFlight = {Len(calls)}
    /\ \E i \in DOMAIN calls : calls[i].st = "resolved"

\* C9 as stated: the returned list is ordered breadth-by-layer, every
\* identifier of layer d before every identifier of layer d + 1.
C9_BreadthByLayer ==
    (Done /\ run = 1) =>
        \A x, y \in Range(Result) :
            Layer(y) = Layer(x) + 1 => FirstPos(Result, x) < FirstPos(Result, y)

\* C9 as amended: the returned list is the records kept from the root fetch,
\* followed record by record by the whole list collected for that record's
\* depends_on (depth-first by record); so the root records come first and
\* every later element is named in the depends_on of an element before it.
C9_DepthFirstByRecord ==
    (Done /\ calls # <<>>) =>
        /\ Result = PreOrder(1)
        /\ SubSeq(Result, 1, Len(calls[1].info)) = calls[1].info
        /\ \A j \in DOMAIN Result :
              j > Len(calls[1].info) =>
                  \E i \in 1..(j - 1) : Result[j] \in Range(graph[Result[i]])

C9_Witness ==
    /\ Done /\ run = 1 /\ calls # <<>>
    /\ Result = PreOrder(1)
    /\ \E x, y \in Range(Result) :
          Layer(y) = Layer(x) + 1 /\ FirstPos(Result, y) < FirstPos(Result, x)

\* C10 as stated: the depends_on lists of a layer are merged into one batch,
\* so a completed traversal has issued one fetch request per layer.
C10_OneFetchPerLayer ==
    (Done /\ run = 1) => Len(calls) = NumLayers

\* C10 as amended: every record a response kept gets a fetch request of its
\* own if its depends_on is not empty; the batch is that record's depends_on,
\* nothing is merged across sibling records, and no other request is issued.
C10_OneFetchPerKeptRecord ==
    /\ \A j \in DOMAIN calls :
          calls[j].parent # 0 =>
              /\ calls[j].parent < j
              /\ calls[j].pos \in DOMAIN calls[calls[j].parent].info
              /\ calls[j].batch = graph[calls[calls[j].parent].info[calls[j].pos]]
              /\ Cardinality(ChildOf(calls[j].parent, calls[j].pos)) = 1
    /\ \A j \in DOMAIN calls : calls[j].parent = 0 => j = 1 /\ calls[j].batch = roots
    /\ Done =>
          \A i \in DOMAIN calls : \A q \in DOMAIN calls[i].info :
              Cardinality(ChildOf(i, q)) = IF graph[calls[i].info[q]] = <<>> THEN 0 ELSE 1

C10_Witness ==
    /\ Done /\ run = 1
    /\ Len(calls) > NumLayers
    /\ \E j, k \in DOMAIN calls :
          /\ j < k /\ calls[j].parent = calls[k].parent /\ calls[j].parent # 0
          /\ Range(calls[j].batch) \cap Range(calls[k].batch) # {}

\* times identifier x is part of the batch of a fetch request
TimesFetched(x) == Cardinality({j \in DOMAIN calls : x \in Range(calls[j].batch)})

\* the scenario of C11 with 1001, 1002, 2001, 2002 written 1, 2, 3, 4
DiamondGraph == GraphOf({<<1, 3>>, <<2, 3>>, <<2, 4>>})

\* C11: roots [1001, 1002], 1001 depending on [2001], 1002 on [2001, 2002],
\* hashtable empty: the identifiers returned are the four of them and 2001 is
\* part of exactly one fetch batch.
C11_DiamondScenario ==
    (graph = DiamondGraph /\ roots = <<1, 2>> /\ run = 1 /\ Done) =>
        /\ Range(Result) = {1, 2, 3, 4}
        /\ TimesFetched(3) = 1

\* times identifier x occurs in the list s
Count(s, x) == Cardinality({i \in DOMAIN s : s[i] = x})

\* the scenario of C12 with A, B written 1, 2
CycleGraph == GraphOf({<<1, 2>>, <<2, 1>>})

\* C12: A depends on B, B depends on A, root A, hashtable empty: the traversal
\* terminates, and the list it returns holds A once and B once.
C12_TwoCycle ==
    (graph = CycleGraph /\ roots = <<1>>) =>
        /\ <>(Done \/ fetchErr # NoErr)
        /\ [](Done => Count(Result, 1) = 1 /\ Count(Result, 2) = 1 /\ Len(Result) = 2)

C12_Witness ==
    /\ graph = CycleGraph /\ roots = <<1>> /\ run = 1 /\ Done
    /\ Result = <<1, 2>>
    /\ Len(calls) = 3
    /\ calls[3].batch = <<1>> /\ calls[3].info = <<>>

\* C13: an identifier that is in the hashtable when getAll is handed it (a
\* later top-level call, or the recursive call for a depends_on list) is not
\* sent in the fetch request of that call and adds nothing to its list.
C13_VisitedRootNotFetched ==
    \A j \in DOMAIN calls :
        /\ Range(calls[j].batch) \cap calls[j].chk = {}
        /\ Range(calls[j].info) \cap calls[j].chk = {}

\* the chain 1 -> 2 -> ... -> n + 1
ChainGraph(n) == GraphOf({<<i, i + 1>> : i \in 1..n})

ChainLens == {n \in 0..MaxEdges : n + 1 <= NumBugs /\ n + 1 <= MaxFetch}

\* C14: on the chain b0 -> b1 -> ... -> bn, root b0, hashtable empty, the
\* requests are [b0], [b1], ..., [bn] in that order, each issued when the one
\* before is answered, n + 1 in all, and the list returned is [b0, ..., bn].
C14_LinearChain ==
    \A n \in ChainLens :
        (graph = ChainGraph(n) /\ roots = <<1>> /\ run = 1) =>
            /\ Len(calls) <= n + 1
            /\ \A j \in DOMAIN calls :
                  /\ calls[j].batch = <<j>>
                  /\ j < Len(calls) => calls[j].st # "fetching"
            /\ Done => Len(calls) = n + 1 /\ Result = [i \in 1..(n + 1) |-> i]

C14_Witness ==
    /\ graph = ChainGraph(MaxEdges) /\ roots = <<1>> /\ run = 1 /\ Done
    /\ Len(calls) = MaxEdges + 1
    /\ Result = [i \in 1..(MaxEdges + 1) |-> i]
    /\ calls[2].batch = <<2>>

\* C15: a kept record with an empty depends_on causes no fetch request; a
\* single root without dependencies gives the one request [root] and the list
\* [root].
C15_EmptyDependsNoFetch ==
    /\ \A i \in DOMAIN calls : \A q \in DOMAIN calls[i].info :
          graph[calls[i].info[q]] = <<>> => ChildOf(i, q) = {}
    /\ (roots = <<1>> /\ graph[1] = <<>> /\ run = 1) =>
          /\ Len(calls) = 1
          /\ calls[1].batch = <<1>>
          /\ Done => Result = <<1>>

C15_Witness ==
    /\ roots = <<1>> /\ graph[1] = <<>> /\ run = 1 /\ Done
    /\ Result = <<1>>
    /\ Len(calls) = 1
    /\ calls[1].st = "resolved" /\ calls[1].idx = 2

\* C16: a [meta] bug the traversal reaches is in the returned list, and so is
\* every bug reached through it.
C16_MetaKeptAndFollowed ==
    (Done /\ run = 1) =>
        \A m \in meta \cap Reachable : ReachFrom({m}) \subseteq Range(Result)

C16_Witness ==
    /\ Done /\ run = 1
    /\ \E m \in meta \cap Range(Result) :
          /\ \E x \in Range(graph[m]) : x \in Range(Result)
          /\ ReachFrom({m}) \subseteq Range(Result)
    /\ Len(calls) >= 3

OtherRoots == {calls[j].batch : j \in {k \in DOMAIN calls : calls[k].parent = -1}}

\* C17: of two getAll running at once, each is fulfilled with the whole
\* closure of its own roots.
C17_ConcurrentEachFullClosure ==
    /\ (Done /\ run = 1) => Reachable \subseteq Range(Result)
    /\ other.st = "fulfilled" =>
          \A r \in OtherRoots : ReachFrom(Range(r)) \subseteq Range(other.val)

\* C18: two traversals of the same graph from the same roots, each started
\* with an empty hashtable, return every identifier the same number of times
\* whatever the order of the records in the responses.
C18_ResponseOrderIndependent ==
    (run = 2 /\ Done /\ prevOutcome.st = "fulfilled") =>
        \A b \in Bugs : Count(Result, b) = Count(prevOutcome.val, b)

\* C19: the list a getBug call resolves with holds one record for each
\* identifier of its batch that the source recognizes.
C19_GetBugOneRecordPerId ==
    \A i \in DOMAIN calls :
        calls[i].st \in {"expanding", "resolved"} =>
            \A x \in Range(calls[i].batch) \cap known : Count(calls[i].info, x) = 1

\* C20: when a dependency list names an identifier the source does not know,
\* the traversal is rejected only by a failed fetch, and a fulfilled one
\* returns every other reachable identifier and not the unknown one.
C20_UnknownIdSkipped ==
    /\ Failed => fetchErr # NoErr
    /\ (Done /\ run = 1) => Range(Result) = Reachable \cap known

C20_Witness ==
    /\ Done /\ run = 1
    /\ UnknownId \in Reachable
    /\ UnknownId \notin Range(Result)
    /\ \E i \in DOMAIN calls :
          /\ UnknownId \in Range(calls[i].batch)
          /\ Len(calls[i].batch) >= 2
          /\ Len(calls[i].info) = Len(calls[i].batch) - 1
    /\ Range(Result) = Reachable \ {UnknownId}

\* C21: every fetch request issued carries at least one identifier; an empty
\* depends_on, and an empty list of roots, issue none.
C21_NoEmptyBatchFetched ==
    /\ \A i \in DOMAIN calls : Len(calls[i].batch) >= 1
    /\ (roots = <<>> /\ run = 1) => calls = <<>>

C21_Witness ==
    /\ Done /\ run = 1
    /\ Len(calls) >= 2
    /\ \E i \in DOMAIN calls : \E q \in DOMAIN calls[i].info :
          /\ graph[calls[i].info[q]] = <<>>
          /\ ChildOf(i, q) = {}
    /\ \A i \in DOMAIN calls : calls[i].st = "resolved"

\* C22: when a request for dependencies is issued, every identifier an
\* earlier response of the traversal kept in its purged list is in checkedBugs.
C22_MarkBeforeRecurse ==
    \A j \in DOMAIN calls :
        calls[j].parent > 0 =>
            \A i \in 1..(j - 1) : Range(calls[i].info) \subseteq calls[j].chk

\* C23: the purged list getBug's callback returns for a response holds no
\* identifier that was in checkedBugs when the callback started.
C23_PurgedListHasNoCheckedId ==
    [][\A i \in DOMAIN calls \cap DOMAIN calls' :
          (calls[i].st = "fetching" /\ calls'[i].st = "expanding") =>
              Range(calls'[i].info) \cap checkedBugs = {}]_vars

\* C24: getAll(x) and getAll([x]), each started with an empty hashtable over
\* the same graph, issue the same batches in the same order and are fulfilled
\* with the same list.
C24_IdLikeOneElementArray ==
    (run = 2 /\ prevOutcome.st = "fulfilled") =>
        /\ Len(Batches) <= Len(prevBatches)
        /\ \A i \in DOMAIN Batches : Batches[i] = prevBatches[i]
        /\ Done => Batches = prevBatches /\ Result = prevOutcome.val

C24_Witness ==
    /\ run = 2 /\ Done /\ prevOutcome.st = "fulfilled"
    /\ rootArg.kind = "id"
    /\ Len(Batches) >= 2
    /\ Batches = prevBatches
    /\ Result = prevOutcome.val
    /\ Len(Result) >= 2

\* C25: a traversal that is rejected leaves checkedBugs as it found it, and
\* the next traversal of the same roots, with every fetch answered, returns
\* the whole closure.
C25_FailureLeavesNoMarks ==
    /\ (run = 1 /\ Failed) => checkedBugs = {}
    /\ (run = 2 /\ prevOutcome.st = "rejected" /\ Done) =>
          Reachable \subseteq Range(Result)

\* C26: no list that filterBugs hands to printData as `done` holds a bug for
\* which isMeta is true.
C26_DoneHasNoMeta ==
    stage = "print" =>
        \A k \in DOMAIN classifiedLists :
            \A b \in Range(classifiedLists[k].done) : ~IsMeta(b)

\* C27: for each of the three lists, every bug of the list filterBugs was
\* given is in exactly one of metas and done, metas holds meta bugs only, and
\* done is the given list without the bugs of metas, in the same order.
C27_FilterKeepsEveryBugOnce ==
    stage = "print" =>
        \A k \in DOMAIN classifiedLists :
            LET given == fullBugList[k].list
                out == classifiedLists[k]
            IN  /\ \A b \in CycIds :
                      Count(given, b) = Count(out.metas, b) + Count(out.done, b)
                /\ \A b \in Range(out.metas) : IsMeta(b)
                /\ out.done = SelectSeq(given, LAMBDA b : b \notin Range(out.metas))

C27_Witness ==
    /\ stage = "print"
    /\ \E k \in DOMAIN classifiedLists :
          /\ Len(fullBugList[k].list) >= 2
          /\ classifiedLists[k].metas # <<>>
          /\ classifiedLists[k].done # <<>>
    /\ \E k \in DOMAIN classifiedLists :
          /\ Len(classifiedLists[k].metas) = 1
          /\ \E b \in Range(classifiedLists[k].done) : IsMeta(b)

Upto(n) == [i \in 1..n |-> i]

\* C28: the releases are queried and printed in RELEASES order, the queries
\* of a release are sent only when the release before it is printed, and once
\* a query, filterBugs or printData of release k has failed, release k is not
\* printed and no later release is queried or printed.
C28_PipelineInOrderStopsOnFailure ==
    /\ printed = Upto(release - 1)
    /\ queried = Upto(IF stage = "next" \/ release > NumReleases
                      THEN release - 1 ELSE release)
    /\ stage \in {"rejected", "caught"} => release <= NumReleases

C28_Witness ==
    /\ stage = "hidden"
    /\ release = 2
    /\ release <= NumReleases
    /\ queried = <<1, 2>>
    /\ printed = <<1>>

\* C29: the promise of getVelocity is fulfilled when every sprint query is
\* answered, with an array whose k-th element is the number of bugs solved in
\* sprint k.
C29_VelocityInSprintOrder ==
    velocity.st = "fulfilled" =>
        /\ \A k \in 1..NumSprints : sprintQuery[k].st = "done"
        /\ Len(velocity.val) = NumSprints
        /\ \A k \in 1..NumSprints : velocity.val[k] = sprintQuery[k].n

====
